---- MODULE Spec2Model ----
(***************************************************************************)
(* Teaching Software Manager: the YAML configuration store.                *)
(*                                                                         *)
(* The persisted document (config/teaching_software.yml) is modelled as    *)
(* the Python dictionary yaml.safe_load returns: a function from string    *)
(* keys to values, a key being absent when it is not in the DOMAIN.        *)
(* ConfigWriter's operations (src/src/config_writer.py) are operators from *)
(* the document on disk to a result and the document they leave on disk;   *)
(* the Flask handlers (src/web/app.py) are sequences of such calls over    *)
(* the process-wide ConfigLoader snapshot.                                 *)
(*                                                                         *)
(* Only the keys the code reads are kept in the records: instructors have  *)
(* email, modules, last_review; modules have code, instructor_id,          *)
(* software; software entries have name, purpose, last_verified.  The      *)
(* other keys (name, department, description, year, ...) are copied by the *)
(* code and never read by it.                                              *)
(***************************************************************************)
EXTENDS Naturals, Sequences, FiniteSets, TLC

VARIABLES
    doc,      \* content of config/teaching_software.yml
    backup,   \* content of teaching_software.yml.backup (the rolling copy)
    archive,  \* content of the newest teaching_software_<timestamp>.yml.backup
    cache,    \* web/app.py: config_loader.config, the process-wide snapshot
    procs,    \* the ConfigWriter calls in progress, one per concurrent caller
    book,     \* content of config/teaching_software.xlsx
    last      \* the last operation: its name, arguments, result, the
              \* document before it and the documents it wrote, in order

vars == <<doc, backup, archive, cache, procs, book, last>>

----------------------------------------------------------------------------
(* Bounds and value universes *)

MaxList == 2        \* longest module list a caller passes
MaxSoftware == 2    \* most software entries in the document

InstrIds == {"i1", "i2"}
ModIds == {"m1", "m2"}
Emails == {"e1", "e2"}
Codes == {"c1", "c2"}
SwNames == {"A", "B"}
Purposes == {"p", "q"}

None == "None"      \* Python's None, as dict.get returns it for a missing key
Today == "today"    \* datetime.now().strftime('%Y-%m-%d')

SeqsUpTo(S, n) == UNION {[1..k -> S] : k \in 0..n}

----------------------------------------------------------------------------
(* Python dictionaries and lists *)

EmptyDict == [k \in {} |-> None]

Has(d, k) == k \in DOMAIN d

\* d.get(k, dflt)
Get(d, k, dflt) == IF k \in DOMAIN d THEN d[k] ELSE dflt

\* d[k] = v
DictSet(d, k, v) == [x \in (DOMAIN d) \cup {k} |-> IF x = k THEN v ELSE d[x]]

\* d.update(e)
DictUpdate(d, e) ==
    [x \in (DOMAIN d) \cup (DOMAIN e) |-> IF x \in DOMAIN e THEN e[x] ELSE d[x]]

\* del d[k]
DictDel(d, k) == [x \in (DOMAIN d) \ {k} |-> d[x]]

\* x in lst
Contains(lst, x) == \E i \in 1..Len(lst) : lst[i] = x

\* lst.remove(x): drops the first occurrence of x only
ListRemove(lst, x) ==
    IF ~Contains(lst, x) THEN lst
    ELSE LET i == CHOOSE j \in 1..Len(lst) :
                      lst[j] = x /\ \A k \in 1..(j - 1) : lst[k] # x
         IN  [k \in 1..(Len(lst) - 1) |-> IF k < i THEN lst[k] ELSE lst[k + 1]]

\* "if x:" for the strings and None the code tests
Truthy(x) == x # None /\ x # ""

Range(lst) == {lst[i] : i \in 1..Len(lst)}

----------------------------------------------------------------------------
(* ConfigLoader read accessors (src/src/config_loader.py) *)

get_instructors(config) == Get(config, "instructors", EmptyDict)

get_modules(config) == Get(config, "modules", EmptyDict)

\* get_instructor_modules(instructor_id), for an instructor that exists
get_instructor_modules(config, instructor_id) ==
    Get(get_instructors(config)[instructor_id], "modules", <<>>)

----------------------------------------------------------------------------
(* ConfigWriter (src/src/config_writer.py).  Every operation returns       *)
(* [ok, cfg]: the boolean it returns and the document on disk afterwards   *)
(* (cfg is what _save_config wrote, or the unchanged document when the     *)
(* operation returns before saving).                                       *)

Fail(config) == [ok |-> FALSE, cfg |-> config]

Saved(config) == [ok |-> TRUE, cfg |-> config]

\* add_instructor: "Empecher les doublons d'email"
EmailTaken_unchecked(config, instructor_data) == FALSE

EmailTaken(config, instructor_data) ==
    LET existing_emails ==
            {Get(config["instructors"][i], "email", None) :
                 i \in DOMAIN config["instructors"]}
    IN  Get(instructor_data, "email", None) \in existing_emails

add_instructor(config0, instructor_id, instructor_data) ==
    LET config == IF ~Has(config0, "instructors")
                  THEN DictSet(config0, "instructors", EmptyDict)
                  ELSE config0
    IN  IF instructor_id \in DOMAIN config["instructors"] THEN Fail(config0)
        ELSE IF EmailTaken(config, instructor_data) THEN Fail(config0)
        ELSE Saved(DictSet(config, "instructors",
                     DictSet(config["instructors"], instructor_id,
                             DictSet(instructor_data, "last_review", Today))))

\* update_instructor: "Empecher doublon d'email lors de la mise a jour"
EmailTakenByOther_unchecked(config, instructor_id, instructor_data) == FALSE

EmailTakenByOther(config, instructor_id, instructor_data) ==
    /\ Has(instructor_data, "email")
    /\ \E inst_key \in DOMAIN config["instructors"] :
          /\ inst_key # instructor_id
          /\ Get(config["instructors"][inst_key], "email", None)
                 = Get(instructor_data, "email", None)

update_instructor(config, instructor_id, instructor_data) ==
    IF ~Has(config, "instructors") \/ instructor_id \notin DOMAIN config["instructors"]
    THEN Fail(config)
    ELSE IF EmailTakenByOther(config, instructor_id, instructor_data) THEN Fail(config)
    ELSE Saved(DictSet(config, "instructors",
                 DictSet(config["instructors"], instructor_id,
                         DictUpdate(config["instructors"][instructor_id],
                                    instructor_data))))

delete_instructor(config, instructor_id) ==
    IF ~Has(config, "instructors") \/ instructor_id \notin DOMAIN config["instructors"]
    THEN Fail(config)
    ELSE Saved(DictSet(config, "instructors",
                       DictDel(config["instructors"], instructor_id)))

\* add_module: "Empecher doublons de code"
CodeTaken_unchecked(config, module_data) == FALSE

CodeTaken(config, module_data) ==
    LET new_code == Get(module_data, "code", None)
    IN  /\ Truthy(new_code)
        /\ \E m \in DOMAIN config["modules"] :
              Get(config["modules"][m], "code", None) = new_code

add_module(config0, module_id, module_data) ==
    LET config == IF ~Has(config0, "modules")
                  THEN DictSet(config0, "modules", EmptyDict)
                  ELSE config0
    IN  IF module_id \in DOMAIN config["modules"] THEN Fail(config0)
        ELSE IF CodeTaken(config, module_data) THEN Fail(config0)
        ELSE Saved(DictSet(config, "modules",
                     DictSet(config["modules"], module_id, module_data)))

\* update_module: "Empecher doublon de code lors de la mise a jour"
CodeTakenByOther_unchecked(config, module_id, module_data) == FALSE

CodeTakenByOther(config, module_id, module_data) ==
    /\ Has(module_data, "code")
    /\ Truthy(module_data["code"])
    /\ \E mod_key \in DOMAIN config["modules"] :
          /\ mod_key # module_id
          /\ Get(config["modules"][mod_key], "code", None) = module_data["code"]

\* (update_module as it would be if it saved before the code check)
update_module_saving_first(config, module_id, module_data) ==
    IF ~Has(config, "modules") \/ module_id \notin DOMAIN config["modules"]
    THEN Fail(config)
    ELSE LET written == DictSet(config, "modules",
                          DictSet(config["modules"], module_id,
                            DictUpdate(config["modules"][module_id], module_data)))
         IN  IF CodeTakenByOther(config, module_id, module_data) THEN Fail(written)
             ELSE Saved(written)

update_module(config, module_id, module_data) ==
    IF ~Has(config, "modules") \/ module_id \notin DOMAIN config["modules"]
    THEN Fail(config)
    ELSE IF CodeTakenByOther(config, module_id, module_data) THEN Fail(config)
    ELSE Saved(DictSet(config, "modules",
                 DictSet(config["modules"], module_id,
                         DictUpdate(config["modules"][module_id], module_data))))

\* delete_module: "Remove module from instructors"
StripModule(inst_data, module_id) ==
    IF Has(inst_data, "modules") /\ Contains(inst_data["modules"], module_id)
    THEN DictSet(inst_data, "modules", ListRemove(inst_data["modules"], module_id))
    ELSE inst_data

\* (delete_module as it would be if an id that is not there counted as done)
delete_module_lenient(config, module_id) ==
    IF ~Has(config, "modules") \/ module_id \notin DOMAIN config["modules"]
    THEN Saved(config)
    ELSE Saved(DictSet(config, "modules", DictDel(config["modules"], module_id)))

delete_module(config, module_id) ==
    IF ~Has(config, "modules") \/ module_id \notin DOMAIN config["modules"]
    THEN Fail(config)
    ELSE LET c1 == DictSet(config, "modules", DictDel(config["modules"], module_id))
         IN  IF Has(c1, "instructors")
             THEN Saved(DictSet(c1, "instructors",
                          [i \in DOMAIN c1["instructors"] |->
                               StripModule(c1["instructors"][i], module_id)]))
             ELSE Saved(c1)

\* add_software_to_module: "Empecher doublons de nom de logiciel dans le meme module"
NameTaken_unchecked(software_list, software_data) == FALSE

NameTaken(software_list, software_data) ==
    LET existing_names ==
            {Get(software_list[i], "name", None) : i \in 1..Len(software_list)}
    IN  Get(software_data, "name", None) \in existing_names

add_software_to_module(config, module_id, software_data) ==
    IF ~Has(config, "modules") \/ module_id \notin DOMAIN config["modules"]
    THEN Fail(config)
    ELSE LET software_list == Get(config["modules"][module_id], "software", <<>>)
         IN  IF NameTaken(software_list, software_data) THEN Fail(config)
             ELSE Saved(DictSet(config, "modules",
                          DictSet(config["modules"], module_id,
                            DictSet(config["modules"][module_id], "software",
                              Append(software_list,
                                     DictSet(software_data, "last_verified", Today))))))

update_software_in_module(config, module_id, software_name, software_data) ==
    IF ~Has(config, "modules") \/ module_id \notin DOMAIN config["modules"]
    THEN Fail(config)
    ELSE IF ~Has(config["modules"][module_id], "software") THEN Fail(config)
    ELSE LET software_list == config["modules"][module_id]["software"]
             hits == {i \in 1..Len(software_list) :
                          Get(software_list[i], "name", None) = software_name}
         IN  IF hits = {} THEN Fail(config)
             ELSE LET idx == CHOOSE i \in hits : \A j \in hits : i <= j
                  IN  Saved(DictSet(config, "modules",
                        DictSet(config["modules"], module_id,
                          DictSet(config["modules"][module_id], "software",
                            [software_list EXCEPT
                               ![idx] = DictUpdate(software_list[idx], software_data)]))))

\* (the list as it would be if only the first entry of that name were dropped)
WithoutName_first(software_list, software_name) ==
    LET hits == {i \in 1..Len(software_list) :
                    Get(software_list[i], "name", None) = software_name}
    IN  IF hits = {} THEN software_list
        ELSE LET i == CHOOSE j \in hits : \A k \in hits : j <= k
             IN  SubSeq(software_list, 1, i - 1)
                     \o SubSeq(software_list, i + 1, Len(software_list))

\* the list comprehension of delete_software_from_module
WithoutName(software_list, software_name) ==
    SelectSeq(software_list, LAMBDA s : Get(s, "name", None) # software_name)

delete_software_from_module(config, module_id, software_name) ==
    IF ~Has(config, "modules") \/ module_id \notin DOMAIN config["modules"]
    THEN Fail(config)
    ELSE IF ~Has(config["modules"][module_id], "software") THEN Fail(config)
    ELSE LET software_list == config["modules"][module_id]["software"]
             kept == WithoutName(software_list, software_name)
         IN  IF Len(kept) < Len(software_list)
             THEN Saved(DictSet(config, "modules",
                          DictSet(config["modules"], module_id,
                            DictSet(config["modules"][module_id], "software", kept))))
             ELSE Fail(config)

----------------------------------------------------------------------------
(* A direct call of a ConfigWriter operation.  _backup_config copies the   *)
(* document to the rolling backup before the document is loaded, on every  *)
(* path, and then to a timestamped copy beside it, which is never read     *)
(* back.                                                                   *)

\* (a call as it would be if _backup_config ran after _save_config)
WriterCall_backup_last(op, id, name, data, r) ==
    /\ doc' = r.cfg
    /\ backup' = r.cfg
    /\ archive' = r.cfg
    /\ cache' = cache
    /\ procs' = procs
    /\ book' = book
    /\ last' = [op |-> op, id |-> id, name |-> name, data |-> data, ok |-> r.ok,
                pre |-> doc, writes |-> IF r.ok THEN <<r.cfg>> ELSE <<>>]

WriterCall(op, id, name, data, r) ==
    /\ doc' = r.cfg
    /\ backup' = doc
    /\ archive' = doc
    /\ cache' = cache
    /\ procs' = procs
    /\ book' = book
    /\ last' = [op |-> op, id |-> id, name |-> name, data |-> data, ok |-> r.ok,
                pre |-> doc, writes |-> IF r.ok THEN <<r.cfg>> ELSE <<>>]

AddInstructor(id, data) ==
    WriterCall("add_instructor", id, None, data, add_instructor(doc, id, data))

UpdateInstructor(id, data) ==
    WriterCall("update_instructor", id, None, data, update_instructor(doc, id, data))

DeleteInstructor(id) ==
    WriterCall("delete_instructor", id, None, EmptyDict, delete_instructor(doc, id))

AddModule(id, data) ==
    WriterCall("add_module", id, None, data, add_module(doc, id, data))

UpdateModule(id, data) ==
    WriterCall("update_module", id, None, data, update_module(doc, id, data))

DeleteModule(id) ==
    WriterCall("delete_module", id, None, EmptyDict, delete_module(doc, id))

\* the software entries of the document, as (module, index) pairs
SoftwareEntries(config) ==
    UNION {{<<m, i>> : i \in 1..Len(Get(get_modules(config)[m], "software", <<>>))} :
               m \in DOMAIN get_modules(config)}

\* (the guard keeps the document within MaxSoftware software entries)
AddSoftware(id, data) ==
    LET r == add_software_to_module(doc, id, data)
    IN  /\ Cardinality(SoftwareEntries(r.cfg)) <= MaxSoftware
        /\ WriterCall("add_software", id, Get(data, "name", None), data, r)

UpdateSoftware(id, name, data) ==
    WriterCall("update_software", id, name, data,
               update_software_in_module(doc, id, name, data))

DeleteSoftware(id, name) ==
    WriterCall("delete_software", id, name, EmptyDict,
               delete_software_from_module(doc, id, name))

----------------------------------------------------------------------------
(* Arguments the callers pass *)

ModLists(S) == SeqsUpTo(S, MaxList)

OptEmail == {EmptyDict} \cup {[email |-> e] : e \in Emails}

OptModules(S) == {EmptyDict} \cup {[modules |-> l] : l \in ModLists(S)}

\* instructor_data: with or without an email, with or without a module list
InstructorData(S) == {DictUpdate(a, b) : a \in OptEmail, b \in OptModules(S)}

\* the module record web/app.py add_module builds for a request naming only an id
PlainModule == [code |-> "", instructor_id |-> "", software |-> <<>>]

EmptyDoc == [instructors |-> EmptyDict, modules |-> EmptyDict]

\* the callers that may run ConfigWriter operations at the same time, and
\* the record of a caller that has not called yet
Callers == {"p1", "p2"}

Idle == [pc |-> "idle", op |-> None, id |-> None, data |-> EmptyDict,
         config |-> EmptyDoc, ok |-> FALSE, alone |-> TRUE]

\* the workbook _ensure_excel_exists creates: headers, no data rows
EmptyBook == [Instructors |-> <<>>, Modules |-> <<>>, Software |-> <<>>,
              SoftwareByOS |-> <<>>, ChangeLog |-> <<>>]

NoOp == [op |-> "init", id |-> None, name |-> None, data |-> EmptyDict, ok |-> TRUE,
         pre |-> EmptyDoc, writes |-> <<>>]

----------------------------------------------------------------------------
(* Spec: ConfigWriter's instructor operations, with a module added and     *)
(* deleted beside them, from the empty document.                           *)

RefMods == {"m1"}

Init ==
    /\ doc = EmptyDoc
    /\ backup = EmptyDoc
    /\ archive = EmptyDoc
    /\ cache = EmptyDoc
    /\ procs = [p \in Callers |-> Idle]
    /\ book = EmptyBook
    /\ last = NoOp

Next ==
    \/ \E id \in InstrIds, data \in InstructorData(RefMods) : AddInstructor(id, data)
    \/ \E id \in InstrIds, data \in InstructorData(RefMods) : UpdateInstructor(id, data)
    \/ \E id \in InstrIds : DeleteInstructor(id)
    \/ \E id \in RefMods : AddModule(id, PlainModule)
    \/ \E id \in RefMods : DeleteModule(id)

Spec == Init /\ [][Next]_vars

----------------------------------------------------------------------------
(* Properties of the document *)

\* every module id in an instructor's module list is a key of the module set
NoDangling(config) ==
    \A i \in DOMAIN get_instructors(config) :
        \A m \in Range(get_instructor_modules(config, i)) :
            m \in DOMAIN get_modules(config)

\* no two instructors have the same email (a missing email reads as None)
EmailsDistinct(config) ==
    \A i, j \in DOMAIN get_instructors(config) :
        i # j => Get(get_instructors(config)[i], "email", None)
                     # Get(get_instructors(config)[j], "email", None)

EmailUsedIn(config, data) ==
    \E i \in DOMAIN get_instructors(config) :
        Get(get_instructors(config)[i], "email", None) = Get(data, "email", None)

----------------------------------------------------------------------------
(* Claims checked under Spec *)

\* C2: after every successful Writer mutation, starting from a document with
\* no dangling references, every module id in any instructor's module list
\* is a key of the module set.
C2_NoDanglingReference == NoDangling(doc)

\* C3: after delete-module(M) returns success, M is in no instructor's
\* module list, whatever the lists contained before (repeated entries of M
\* included), so get_instructor_modules(I) does not contain M for any I.
C3_DeletedModuleInNoList ==
    (last.op = "delete_module" /\ last.ok) =>
        \A i \in DOMAIN get_instructors(doc) :
            ~Contains(get_instructor_modules(doc, i), last.id)

\* C6: add-instructor with an email equal to the email of an instructor
\* already in the document returns failure, and the persisted document is
\* the same before and after the call.
C6_DuplicateEmailRejected ==
    (last.op = "add_instructor" /\ EmailUsedIn(last.pre, last.data)) =>
        (~last.ok /\ doc = last.pre)

\* C6 witness: an add-instructor of a new id, carrying an email another
\* instructor has, was refused.
C6_Witness ==
    /\ last.op = "add_instructor"
    /\ last.id \notin DOMAIN get_instructors(last.pre)
    /\ Has(last.data, "email")
    /\ EmailUsedIn(last.pre, last.data)
    /\ ~last.ok

\* C7: after any sequence of add-, update- and delete-instructor calls on a
\* document whose instructor emails are pairwise distinct, the emails are
\* still pairwise distinct, and add-instructor with an id already present
\* never replaces the existing record.
C7_EmailsStayDistinct ==
    /\ EmailsDistinct(doc)
    /\ (last.op = "add_instructor" /\ last.id \in DOMAIN get_instructors(last.pre)) =>
           (~last.ok /\ doc = last.pre)

\* C7 witness: with two instructors in the document, an update-instructor
\* that changes an email succeeded.
C7_Witness ==
    /\ last.op = "update_instructor"
    /\ last.ok
    /\ Has(last.data, "email")
    /\ Cardinality(DOMAIN get_instructors(doc)) = 2
    /\ Get(get_instructors(last.pre)[last.id], "email", None) # last.data["email"]

----------------------------------------------------------------------------
(* SpecModules: ConfigWriter's module operations on module codes, from the *)
(* empty document.                                                         *)

CodeMods == {"m1", "m2", "m3"}

\* module_data: without a code, with the empty code, or with a code
OptCode == {EmptyDict} \cup {[code |-> c] : c \in {""} \cup Codes}

NextModules ==
    \/ \E id \in CodeMods, data \in OptCode : AddModule(id, data)
    \/ \E id \in CodeMods, data \in OptCode : UpdateModule(id, data)
    \/ \E id \in CodeMods : DeleteModule(id)

SpecModules == Init /\ [][NextModules]_vars

\* no two modules have the same non-empty code
CodesDistinct(config) ==
    \A m, n \in DOMAIN get_modules(config) :
        (m # n /\ Truthy(Get(get_modules(config)[m], "code", None))) =>
            Get(get_modules(config)[m], "code", None)
                # Get(get_modules(config)[n], "code", None)

\* the call would give module id a non-empty code another module has
CodeUsedByOther(config, id, data) ==
    /\ Truthy(Get(data, "code", None))
    /\ \E n \in DOMAIN get_modules(config) :
          n # id /\ Get(get_modules(config)[n], "code", None) = data["code"]

\* C8: after any sequence of add-, update- and delete-module calls on a
\* document whose non-empty module codes are pairwise distinct, no two
\* modules have the same non-empty code; an add or update that would give a
\* module a code already used by another module returns failure.
C8_CodesStayDistinct ==
    /\ CodesDistinct(doc)
    /\ (last.op \in {"add_module", "update_module"}
            /\ CodeUsedByOther(last.pre, last.id, last.data)) => ~last.ok

\* C8 witness: an update-module of an existing module to the code of
\* another module was refused.
C8_Witness ==
    /\ last.op = "update_module"
    /\ last.id \in DOMAIN get_modules(last.pre)
    /\ CodeUsedByOther(last.pre, last.id, last.data)
    /\ ~last.ok
    /\ Cardinality(DOMAIN get_modules(doc)) >= 2

----------------------------------------------------------------------------
(* SpecSoftware: ConfigWriter's software operations on two modules, from   *)
(* the empty document.                                                     *)

SoftwareData == {[name |-> n, purpose |-> p] : n \in SwNames, p \in Purposes}

OptName == {EmptyDict} \cup {[name |-> n] : n \in SwNames}

OptPurpose == {EmptyDict} \cup {[purpose |-> p] : p \in Purposes}

\* software_data of an update: any of the keys, the name among them
SoftwareUpdate == {DictUpdate(a, b) : a \in OptName, b \in OptPurpose}

NextSoftware ==
    \/ \E id \in ModIds : AddModule(id, PlainModule)
    \/ \E id \in ModIds, data \in SoftwareData : AddSoftware(id, data)
    \/ \E id \in ModIds, name \in SwNames, data \in SoftwareUpdate :
           UpdateSoftware(id, name, data)
    \/ \E id \in ModIds, name \in SwNames : DeleteSoftware(id, name)

SpecSoftware == Init /\ [][NextSoftware]_vars

\* get_module_software(module_id), for a module that exists
get_module_software(config, module_id) ==
    Get(get_modules(config)[module_id], "software", <<>>)

SoftwareNames(config, module_id) ==
    LET software_list == get_module_software(config, module_id)
    IN  {Get(software_list[i], "name", None) : i \in 1..Len(software_list)}

\* C9: after any sequence of successful add-, update- and delete-software
\* calls on a document where software names are unique within each module,
\* no module's software list holds two entries with the same name.
C9_SoftwareNamesUnique ==
    \A m \in DOMAIN get_modules(doc) :
        LET software_list == get_module_software(doc, m)
        IN  \A i, j \in 1..Len(software_list) :
                i # j => Get(software_list[i], "name", None)
                             # Get(software_list[j], "name", None)

\* the first part of C10, on the state after the call
C10_Refused ==
    (/\ last.op = "add_software"
     /\ last.id \in DOMAIN get_modules(last.pre)
     /\ last.name \in SoftwareNames(last.pre, last.id)) =>
        (/\ ~last.ok
         /\ get_module_software(doc, last.id) = get_module_software(last.pre, last.id))

\* the second part of C10, on two successive calls (last, then last')
C10_Twice ==
    (/\ last.op = "add_software"
     /\ last'.op = "add_software"
     /\ last'.id = last.id
     /\ last'.name = last.name
     /\ last.id \in DOMAIN get_modules(last.pre)
     /\ get_module_software(last.pre, last.id) = <<>>) =>
        (/\ last.ok
         /\ ~last'.ok
         /\ Len(get_module_software(doc', last.id)) = 1)

\* C10: add-software(M, name=n) on a module whose software list already has
\* an entry named n returns failure and leaves M's software list unchanged;
\* two successive add-software calls with the same name on a module with an
\* empty software list succeed once, fail once and leave the list with
\* length 1.
C10_DuplicateSoftwareRefused == [](C10_Refused) /\ [][C10_Twice]_vars

\* C10 witness: the second of two add-software calls with one name was
\* refused and the list holds the one entry the first call added.
C10_Witness ==
    /\ last.op = "add_software"
    /\ ~last.ok
    /\ last.id \in DOMAIN get_modules(doc)
    /\ Len(get_module_software(doc, last.id)) = 1
    /\ get_module_software(doc, last.id)[1]["name"] = last.name
    /\ last.data["purpose"] # get_module_software(doc, last.id)[1]["purpose"]

\* the entries of the list that are not named n, in the order of the list
OtherEntries(software_list, n) ==
    LET keep == {i \in 1..Len(software_list) : Get(software_list[i], "name", None) # n}
        Nth[k \in 1..Cardinality(keep)] ==
            CHOOSE i \in keep : Cardinality({j \in keep : j < i}) = k - 1
    IN  [k \in 1..Cardinality(keep) |-> software_list[Nth[k]]]

\* module M of the document has an entry named n
HasEntryNamed(config, M, n) ==
    /\ M \in DOMAIN get_modules(config)
    /\ n \in SoftwareNames(config, M)

----------------------------------------------------------------------------
(* The Flask handlers of web/app.py.  A handler runs over                  *)
(*   w = [disk, backup, archive, cache, writes]:                           *)
(* the document and its two backups on disk, the ConfigLoader snapshot     *)
(* the handler reads (and mutates in place), and the documents written so  *)
(* far.  The snapshot is the one loaded by the last reload_config(), so    *)
(* during a handler it is the document as it was before the handler's      *)
(* first write.                                                            *)

\* one ConfigWriter call made by a handler
Call(w, r) ==
    [disk |-> r.cfg, backup |-> w.disk, archive |-> w.disk, cache |-> w.cache,
     writes |-> IF r.ok THEN Append(w.writes, r.cfg) ELSE w.writes]

\* mods.remove(...) / mods.append(...) on the list held by the snapshot; a
\* record without a 'modules' key gave .get('modules', []) a fresh list
CacheSetModules(w, inst_id, mods) ==
    IF Has(w.cache["instructors"][inst_id], "modules")
    THEN [w EXCEPT !.cache = DictSet(w.cache, "instructors",
                       DictSet(w.cache["instructors"], inst_id,
                           DictSet(w.cache["instructors"][inst_id], "modules", mods)))]
    ELSE w

\* the keys of all_instructors in iteration order.  Every write of the loops
\* below rewrites the module list of one instructor, so the document they
\* end with is the same for every order; the order of the ids is used.
InstrOrder == <<"i1", "i2">>

Keys(instructors) == SelectSeq(InstrOrder, LAMBDA i : i \in DOMAIN instructors)

\* for inst_id, inst_data in all_instructors.items():
\*     mods = inst_data.get('modules', [])
\*     if mod_id in mods and inst_id != keep_id:
\*         mods.remove(mod_id); config_writer.update_instructor(inst_id, {'modules': mods})
RECURSIVE RemoveFromOthers(_, _, _, _)
RemoveFromOthers(w, ids, mod_id, keep_id) ==
    IF ids = <<>> THEN w
    ELSE LET inst_id == Head(ids)
             mods == Get(get_instructors(w.cache)[inst_id], "modules", <<>>)
         IN  IF Contains(mods, mod_id) /\ inst_id # keep_id
             THEN LET left == ListRemove(mods, mod_id)
                      w1 == CacheSetModules(w, inst_id, left)
                  IN  RemoveFromOthers(
                          Call(w1, update_instructor(w1.disk, inst_id, [modules |-> left])),
                          Tail(ids), mod_id, keep_id)
             ELSE RemoveFromOthers(w, Tail(ids), mod_id, keep_id)

\* instructor = config_loader.get_instructor(target)      (ValueError: pass)
\* if module_id not in modules: modules.append(module_id); update_instructor(...)
AddToTarget(w, module_id, target) ==
    IF target \notin DOMAIN get_instructors(w.cache) THEN w
    ELSE LET mods == Get(get_instructors(w.cache)[target], "modules", <<>>)
         IN  IF Contains(mods, module_id) THEN w
             ELSE LET more == Append(mods, module_id)
                      w1 == CacheSetModules(w, target, more)
                  IN  Call(w1, update_instructor(w1.disk, target, [modules |-> more]))

\* for mod_id in modules: remove it from the other instructors, then
\*     config_writer.update_module(mod_id, {'instructor_id': instructor_id})
RECURSIVE AssignAll(_, _, _)
AssignAll(w, mods, instructor_id) ==
    IF mods = <<>> THEN w
    ELSE LET w1 == RemoveFromOthers(w, Keys(get_instructors(w.cache)),
                                    Head(mods), instructor_id)
             w2 == Call(w1, update_module(w1.disk, Head(mods),
                                          [instructor_id |-> instructor_id]))
         IN  AssignAll(w2, Tail(mods), instructor_id)

\* for mod_id in removed: config_writer.update_module(mod_id, {'instructor_id': ''})
RECURSIVE ClearAll(_, _)
ClearAll(w, mods) ==
    IF mods = <<>> THEN w
    ELSE ClearAll(Call(w, update_module(w.disk, Head(mods), [instructor_id |-> ""])),
                  Tail(mods))

\* the state a handler starts in, and the state it leaves: reload_config()
\* runs on the success branch only
Start == [disk |-> doc, backup |-> backup, archive |-> archive, cache |-> cache,
          writes |-> <<>>]

Finish(op, id, data, ok, w) ==
    /\ doc' = w.disk
    /\ backup' = w.backup
    /\ archive' = w.archive
    /\ cache' = IF ok THEN w.disk ELSE w.cache
    /\ procs' = procs
    /\ book' = book
    /\ last' = [op |-> op, id |-> id, name |-> None, data |-> data, ok |-> ok,
                pre |-> doc, writes |-> w.writes]

\* POST /api/instructor/add
WebAddInstructor(instructor_id, data) ==
    LET instructor_data == [email |-> Get(data, "email", None),
                            modules |-> Get(data, "modules", <<>>)]
        r == add_instructor(doc, instructor_id, instructor_data)
        w0 == Call(Start, r)
    IN  Finish("web_add_instructor", instructor_id, data, r.ok,
               IF r.ok THEN AssignAll(w0, instructor_data["modules"], instructor_id)
               ELSE w0)

\* POST /api/instructor/<instructor_id>/update
WebUpdateInstructor(instructor_id, data) ==
    LET r == update_instructor(doc, instructor_id, data)
        w0 == Call(Start, r)
        w1 == AssignAll(w0, data["modules"], instructor_id)
        old_modules == Get(get_instructors(w1.cache)[instructor_id], "modules", <<>>)
        removed == SelectSeq(old_modules, LAMBDA m : ~Contains(data["modules"], m))
    IN  Finish("web_update_instructor", instructor_id, data, r.ok,
               IF r.ok /\ Has(data, "modules")
               THEN IF instructor_id \in DOMAIN get_instructors(w1.cache)
                    THEN ClearAll(w1, removed)
                    ELSE w1
               ELSE w0)

\* POST /api/instructor/<instructor_id>/delete
WebDeleteInstructor(instructor_id) ==
    LET r == delete_instructor(doc, instructor_id)
    IN  Finish("web_delete_instructor", instructor_id, EmptyDict, r.ok, Call(Start, r))

\* POST /api/module/add
WebAddModule(module_id, data) ==
    IF module_id \in DOMAIN get_modules(cache)
    THEN Finish("web_add_module", module_id, data, FALSE, Start)
    ELSE LET module_data == [code |-> Get(data, "code", ""),
                             software |-> Get(data, "software", <<>>),
                             instructor_id |-> Get(data, "instructor_id", "")]
             r == add_module(doc, module_id, module_data)
             w0 == Call(Start, r)
             instructor_id == Get(data, "instructor_id", None)
         IN  Finish("web_add_module", module_id, data, r.ok,
                    IF r.ok /\ Truthy(instructor_id)
                    THEN AddToTarget(
                             RemoveFromOthers(w0, Keys(get_instructors(w0.cache)),
                                              module_id, instructor_id),
                             module_id, instructor_id)
                    ELSE w0)

\* POST /api/module/<module_id>/update
WebUpdateModule(module_id, data) ==
    LET r == update_module(doc, module_id, data)
        w0 == Call(Start, r)
        new_instructor_id == Get(data, "instructor_id", None)
        w1 == RemoveFromOthers(w0, Keys(get_instructors(w0.cache)),
                               module_id, new_instructor_id)
    IN  Finish("web_update_module", module_id, data, r.ok,
               IF r.ok
               THEN IF Truthy(new_instructor_id)
                    THEN AddToTarget(w1, module_id, new_instructor_id)
                    ELSE w1
               ELSE w0)

\* POST /api/module/<module_id>/delete
WebDeleteModule(module_id) ==
    LET r == delete_module(doc, module_id)
    IN  Finish("web_delete_module", module_id, EmptyDict, r.ok, Call(Start, r))

----------------------------------------------------------------------------
(* SpecWeb: the instructor and module handlers, from the empty document.   *)
(* Each instructor id registers with an email of its own, so that the      *)
(* email check never decides these runs.                                   *)

EmailOf(id) == IF id = "i1" THEN "e1" ELSE "e2"

WebMods == {"m1"}

OptOwner == {EmptyDict} \cup {[instructor_id |-> i] : i \in {""} \cup InstrIds}

NextWeb ==
    \/ \E id \in InstrIds, l \in ModLists(WebMods) :
           WebAddInstructor(id, [email |-> EmailOf(id), modules |-> l])
    \/ \E id \in InstrIds, data \in OptModules(WebMods) : WebUpdateInstructor(id, data)
    \/ \E id \in InstrIds : WebDeleteInstructor(id)
    \/ \E id \in WebMods, data \in OptOwner : WebAddModule(id, data)
    \/ \E id \in WebMods, data \in OptOwner : WebUpdateModule(id, data)
    \/ \E id \in WebMods : WebDeleteModule(id)

SpecWeb == Init /\ [][NextWeb]_vars

\* ownership is single-sourced: a module is in an instructor's list exactly
\* when its owner field names that instructor, and in at most one list
OwnershipAgrees(config) ==
    \A m \in DOMAIN get_modules(config) :
        /\ \A i \in DOMAIN get_instructors(config) :
               Contains(get_instructor_modules(config, i), m)
                   <=> (Get(get_modules(config)[m], "instructor_id", None) = i)
        /\ Cardinality({i \in DOMAIN get_instructors(config) :
                            Contains(get_instructor_modules(config, i), m)}) <= 1

Owners(config) ==
    [m \in DOMAIN get_modules(config) |->
         Get(get_modules(config)[m], "instructor_id", None)]

Lists(config) ==
    [i \in DOMAIN get_instructors(config) |-> get_instructor_modules(config, i)]

WebOps == {"web_add_instructor", "web_update_instructor", "web_delete_instructor",
           "web_add_module", "web_update_module", "web_delete_module"}

\* C1: after every completed mutation operation exposed to collaborators
\* (add/update/delete instructor, add/update/delete module), starting from
\* a document where ownership agrees, a module M is in instructor I's list
\* if and only if M's owner field equals I, and M is in at most one list.
C1_OwnershipAgrees == OwnershipAgrees(doc)

\* two successive update-module requests (last, then last') assigning one
\* module to instructor A and then to another instructor B, both in the
\* document
C4_Step ==
    (/\ last.op = "web_update_module" /\ last.ok
     /\ last'.op = "web_update_module" /\ last'.ok
     /\ last'.id = last.id
     /\ Has(last.data, "instructor_id") /\ Has(last'.data, "instructor_id")
     /\ last.data["instructor_id"] \in DOMAIN get_instructors(doc)
     /\ last'.data["instructor_id"] \in DOMAIN get_instructors(doc)
     /\ last.data["instructor_id"] # last'.data["instructor_id"]) =>
        (/\ Contains(get_instructor_modules(doc', last'.data["instructor_id"]), last.id)
         /\ ~Contains(get_instructor_modules(doc', last.data["instructor_id"]), last.id)
         /\ get_modules(doc')[last.id]["instructor_id"] = last'.data["instructor_id"])

\* C4: assigning module M to instructor A (update-module with
\* instructor_id=A) and then to instructor B ends with M in B's module list,
\* M not in A's module list, and M's owner field equal to B.
C4_ReassignMovesModule == [][C4_Step]_vars

\* C5: an ownership change is persisted atomically: during one
\* ownership-changing operation no document is written to disk in which the
\* module's owner field and the instructors' module lists disagree.
C5_OwnershipChangeAtomic ==
    (/\ last.op \in WebOps /\ last.ok
     /\ OwnershipAgrees(last.pre) /\ OwnershipAgrees(doc)
     /\ (Owners(last.pre) # Owners(doc) \/ Lists(last.pre) # Lists(doc))) =>
        \A k \in 1..Len(last.writes) : OwnershipAgrees(last.writes[k])

\* C28: an update-module request whose data carries no instructor_id
\* leaves the module list of every instructor and the owner field of the
\* module unchanged.
C28_PlainUpdateKeepsOwnership ==
    (/\ last.op = "web_update_module"
     /\ last.ok
     /\ ~Has(last.data, "instructor_id")) =>
        /\ Lists(doc) = Lists(last.pre)
        /\ Owners(doc) = Owners(last.pre)

\* C29: after delete-instructor(I) returned success, the owner field of no
\* module equals I.
C29_DeletedInstructorOwnsNothing ==
    (last.op = "web_delete_instructor" /\ last.ok) =>
        \A m \in DOMAIN get_modules(doc) :
            Get(get_modules(doc)[m], "instructor_id", None) # last.id

----------------------------------------------------------------------------
(* SpecWriter: all nine ConfigWriter operations side by side, from the     *)
(* empty document.                                                         *)

\* module_data of an add: the record web/app.py builds, with a code
CodedModule == {DictSet(PlainModule, "code", c) : c \in Codes}

\* module_data of an update that changes the code
CodeUpdate == {[code |-> c] : c \in Codes}

\* software_data of an add: a name and one purpose
NamedSoftware == {[name |-> n, purpose |-> "p"] : n \in SwNames}

\* software_data of an update that changes the purpose
Repurpose == {[purpose |-> "q"]}

NextWriter ==
    \/ \E id \in InstrIds, data \in OptEmail : AddInstructor(id, data)
    \/ \E id \in InstrIds, data \in OptEmail : UpdateInstructor(id, data)
    \/ \E id \in InstrIds : DeleteInstructor(id)
    \/ \E id \in ModIds, data \in CodedModule : AddModule(id, data)
    \/ \E id \in ModIds, data \in CodeUpdate : UpdateModule(id, data)
    \/ \E id \in ModIds : DeleteModule(id)
    \/ \E id \in ModIds, data \in NamedSoftware : AddSoftware(id, data)
    \/ \E id \in ModIds, name \in SwNames, data \in Repurpose :
           UpdateSoftware(id, name, data)
    \/ \E id \in ModIds, name \in SwNames : DeleteSoftware(id, name)

SpecWriter == Init /\ [][NextWriter]_vars

WriterOps == {"add_instructor", "update_instructor", "delete_instructor",
              "add_module", "update_module", "delete_module",
              "add_software", "update_software", "delete_software"}

\* C11: every Writer operation that returns failure (the id, email, code
\* or software name is already taken, or the target is not found) leaves
\* the persisted document identical to what it was when the operation
\* started.
C11_FailureLeavesDocument ==
    (last.op \in WriterOps /\ ~last.ok) => doc = last.pre

\* C11 witness: an update-module of an existing module was refused for a
\* code another module has, on a document that also holds an instructor.
C11_Witness ==
    /\ last.op = "update_module"
    /\ ~last.ok
    /\ last.id \in DOMAIN get_modules(last.pre)
    /\ CodeUsedByOther(last.pre, last.id, last.data)
    /\ DOMAIN get_instructors(last.pre) # {}
    /\ doc = last.pre

\* C13: in every Writer operation both backup copies, the rolling one and
\* the timestamped one, are written before the primary document is: after
\* the operation they hold the document as it was immediately before it,
\* and so does the rolling backup whenever the operation returned success.
C13_BackupsBeforeWrite ==
    last.op \in WriterOps => (backup = last.pre /\ archive = last.pre)

\* C13 witness: a delete-module succeeded and changed the document, and the
\* rolling backup holds the document with the module still in it.
C13_Witness ==
    /\ last.op = "delete_module"
    /\ last.ok
    /\ doc # last.pre
    /\ last.id \in DOMAIN get_modules(backup)
    /\ backup = last.pre

\* the audit log of a document: config.get('audit_log', [])
AuditLog(config) == Get(config, "audit_log", <<>>)

\* C14: every successful Writer mutation appends exactly one entry to the
\* document's audit log, and the entries that were there before it stay as
\* they were (the log only grows, by one per successful mutation).
C14_AuditEntryPerMutation ==
    (last.op \in WriterOps /\ last.ok) =>
        /\ Len(AuditLog(doc)) = Len(AuditLog(last.pre)) + 1
        /\ SubSeq(AuditLog(doc), 1, Len(AuditLog(last.pre))) = AuditLog(last.pre)

----------------------------------------------------------------------------
(* SpecPersist: _save_config step by step.  open(config_path, 'w')         *)
(* truncates the primary document in place, yaml.dump then streams the     *)
(* top-level keys into it in the order the dict holds them, and the write  *)
(* can fail (OSError) or the process can stop at any point in between;     *)
(* the exception handler of the operation returns False and repairs        *)
(* nothing.  While a save is in progress last.op is "open" or "dump" and   *)
(* last.writes holds the document being written.                           *)

\* the primary document right after open(..., 'w'): no content
EmptyFile == EmptyDict

\* the order yaml.dump(sort_keys=False) writes the top-level keys in
KeyOrder == <<"instructors", "modules">>

KeysOf(config) == SelectSeq(KeyOrder, LAMBDA k : k \in DOMAIN config)

Persisting == last.op \in {"open", "dump"}

\* an operation up to the open() of _save_config; an operation that
\* returns before saving, or that cannot load the document (yaml.safe_load
\* of an empty file gives None, and the first test on it raises), returns
\* False after the backup
StepwiseCall(op, id, data, r) ==
    /\ ~Persisting
    /\ IF doc = EmptyFile \/ ~r.ok
       THEN WriterCall(op, id, None, data, Fail(doc))
       ELSE /\ doc' = EmptyFile
            /\ backup' = doc
            /\ archive' = doc
            /\ cache' = cache
            /\ procs' = procs
            /\ book' = book
            /\ last' = [op |-> "open", id |-> id, name |-> None, data |-> data,
                        ok |-> FALSE, pre |-> doc, writes |-> <<r.cfg>>]

\* yaml.dump writes the next top-level key; after the last one the file is
\* closed and the operation returns True
WriteKey ==
    /\ Persisting
    /\ LET new == last.writes[1]
           n == Cardinality(DOMAIN doc) + 1
           keys == {KeysOf(new)[i] : i \in 1..n}
           done == n = Len(KeysOf(new))
       IN  /\ doc' = [k \in keys |-> new[k]]
           /\ last' = [last EXCEPT !.op = IF done THEN "saved" ELSE "dump",
                                   !.ok = done]
    /\ UNCHANGED <<backup, archive, cache, procs, book>>

\* the write raises, or the process stops: the file stays as it is
WriteFails ==
    /\ Persisting
    /\ last' = [last EXCEPT !.op = "save_failed"]
    /\ UNCHANGED <<doc, backup, archive, cache, procs, book>>

NextPersist ==
    \/ \E id \in InstrIds, data \in OptEmail :
           StepwiseCall("add_instructor", id, data, add_instructor(doc, id, data))
    \/ \E id \in InstrIds :
           StepwiseCall("delete_instructor", id, EmptyDict, delete_instructor(doc, id))
    \/ \E id \in ModIds, data \in CodedModule :
           StepwiseCall("add_module", id, data, add_module(doc, id, data))
    \/ \E id \in ModIds :
           StepwiseCall("delete_module", id, EmptyDict, delete_module(doc, id))
    \/ WriteKey
    \/ WriteFails

SpecPersist == Init /\ [][NextPersist]_vars

\* C12: after a persist step that failed or was interrupted, the primary
\* document is either the complete previous content or the complete new
\* content, never empty or partially written.
C12_FailedWriteKeepsDocument ==
    last.op = "save_failed" => (doc = last.pre \/ doc = last.writes[1])

----------------------------------------------------------------------------
(* SpecRace: two callers each run one add operation of ConfigWriter with   *)
(* no lock between them.  An operation is three steps: _backup_config,     *)
(* _load_config, and the rest (the checks on the loaded document and       *)
(* _save_config); the steps of the two callers interleave freely.          *)
(* procs[p].alone records that the whole call of p ran while the other     *)
(* caller was not inside a call.                                           *)

\* _load_config: the document as it is on disk at that moment
load_config_stale(disk) == EmptyDoc

load_config(disk) == disk

InCall(p) == procs[p].pc \in {"backed", "loaded"}

\* p enters an operation: _backup_config
RaceBackup(p, op, id, data) ==
    /\ procs[p].pc = "idle"
    /\ LET others == {q \in Callers \ {p} : InCall(q)}
       IN  procs' = [q \in Callers |->
                       IF q = p
                       THEN [pc |-> "backed", op |-> op, id |-> id, data |-> data,
                             config |-> EmptyDoc, ok |-> FALSE, alone |-> others = {}]
                       ELSE IF q \in others THEN [procs[q] EXCEPT !.alone = FALSE]
                       ELSE procs[q]]
    /\ backup' = doc
    /\ archive' = doc
    /\ UNCHANGED <<doc, cache, book, last>>

\* config = self._load_config()
RaceLoad(p) ==
    /\ procs[p].pc = "backed"
    /\ procs' = [procs EXCEPT ![p].pc = "loaded", ![p].config = load_config(doc)]
    /\ UNCHANGED <<doc, backup, archive, cache, book, last>>

\* the checks on the loaded document, then _save_config and return True,
\* or return False without saving
RaceSave(p) ==
    /\ procs[p].pc = "loaded"
    /\ LET c == procs[p]
           r == IF c.op = "add_module" THEN add_module(c.config, c.id, c.data)
                ELSE add_instructor(c.config, c.id, c.data)
       IN  /\ doc' = IF r.ok THEN r.cfg ELSE doc
           /\ procs' = [procs EXCEPT ![p].pc = "done", ![p].ok = r.ok]
           /\ last' = [op |-> c.op, id |-> c.id, name |-> None, data |-> c.data,
                       ok |-> r.ok, pre |-> doc,
                       writes |-> IF r.ok THEN <<r.cfg>> ELSE <<>>]
    /\ UNCHANGED <<backup, archive, cache, book>>

NextRace ==
    \/ \E p \in Callers, id \in InstrIds, data \in OptEmail :
           RaceBackup(p, "add_instructor", id, data)
    \/ \E p \in Callers, id \in ModIds, data \in CodedModule :
           RaceBackup(p, "add_module", id, data)
    \/ \E p \in Callers : RaceLoad(p)
    \/ \E p \in Callers : RaceSave(p)

SpecRace == Init /\ [][NextRace]_vars

\* the effect of the add that p ran is in the document
Effect(p, config) ==
    IF procs[p].op = "add_module"
    THEN /\ procs[p].id \in DOMAIN get_modules(config)
         /\ get_modules(config)[procs[p].id] = procs[p].data
    ELSE /\ procs[p].id \in DOMAIN get_instructors(config)
         /\ get_instructors(config)[procs[p].id]
                = DictSet(procs[p].data, "last_review", Today)

BothSucceeded == \A p \in Callers : procs[p].pc = "done" /\ procs[p].ok

\* C15: when the two operations run one after the other and both return
\* success, the final document contains the effect of both; when they run
\* concurrently, interleaved at their load and save steps, a state is
\* reachable in which both returned success and the document contains the
\* effect of only one of them (C15_LostUpdate).
C15_SequentialKeepsBoth ==
    (BothSucceeded /\ \A p \in Callers : procs[p].alone) =>
        \A p \in Callers : Effect(p, doc)

\* C15 witness: two adds of different entities both returned success and
\* the document holds the effect of exactly one of them.
C15_LostUpdate ==
    /\ BothSucceeded
    /\ procs["p1"].id # procs["p2"].id
    /\ \E p \in Callers : Effect(p, doc)
    /\ \E p \in Callers : ~Effect(p, doc)

----------------------------------------------------------------------------
(* ExcelSyncManager (src/src/excel_sync.py).  The workbook is              *)
(*   book = [Instructors, Modules, Software]:                              *)
(* the data rows of the three sheets import_from_excel reads, each row the *)
(* tuple of its cells in column order (row[0] of the code is row[1] here). *)
(* A cell the code fills with a joined list is a text: the sequence of its *)
(* pieces, which are words of the document (ids and names, none of which   *)
(* holds a comma or a blank) and the separators "," " " "(" ")".  The year *)
(* and semester cells are [num |-> n] for a number and [text |-> s] for a  *)
(* string.  OS entries of the documents are dicts; dicts iterate in the    *)
(* order of their ids.                                                     *)

\* a string of the document as a text
Word(s) == IF s = "" THEN <<>> ELSE <<s>>

\* ", ".join(items)
RECURSIVE JoinText(_)
JoinText(items) ==
    IF items = <<>> THEN <<>>
    ELSE IF Len(items) = 1 THEN items[1]
    ELSE items[1] \o <<",", " ">> \o JoinText(Tail(items))

RECURSIVE StripLeft(_)
StripLeft(t) == IF t # <<>> /\ Head(t) = " " THEN StripLeft(Tail(t)) ELSE t

RECURSIVE StripRight(_)
StripRight(t) ==
    IF t # <<>> /\ t[Len(t)] = " " THEN StripRight(SubSeq(t, 1, Len(t) - 1)) ELSE t

\* (strip as it would be if it kept the blanks)
Strip_nothing(t) == t

\* t.strip()
Strip(t) == StripRight(StripLeft(t))

\* t.split(",")
RECURSIVE SplitText(_)
SplitText(t) ==
    LET commas == {i \in 1..Len(t) : t[i] = ","}
    IN  IF commas = {} THEN <<t>>
        ELSE LET i == CHOOSE j \in commas : \A k \in commas : j <= k
             IN  <<SubSeq(t, 1, i - 1)>> \o SplitText(SubSeq(t, i + 1, Len(t)))

\* the string a text spells
RECURSIVE Spell(_)
Spell(t) == IF t = <<>> THEN "" ELSE Head(t) \o Spell(Tail(t))

\* [x.strip() for x in t.split(",") if x.strip()]
SplitList(t) ==
    LET parts == SplitText(t)
        kept == SelectSeq([i \in 1..Len(parts) |-> Strip(parts[i])],
                          LAMBDA x : x # <<>>)
    IN  [i \in 1..Len(kept) |-> Spell(kept[i])]

\* x or ''
OrEmpty(x) == IF Truthy(x) THEN x ELSE ""

RECURSIVE Flatten(_)
Flatten(lists) == IF lists = <<>> THEN <<>> ELSE Head(lists) \o Flatten(Tail(lists))

ModOrder == <<"m1", "m2">>

ModKeys(modules) == SelectSeq(ModOrder, LAMBDA m : m \in DOMAIN modules)

\* export_to_excel: one OS entry of a module as it is written to the cell
OsText(os_entry) ==
    LET name == OrEmpty(Get(os_entry, "name", None))
        note == IF Truthy(Get(os_entry, "note", None)) THEN os_entry["note"]
                ELSE OrEmpty(Get(os_entry, "description", None))
    IN  IF note # "" THEN Strip(Word(name) \o <<" ", "(">> \o Word(note) \o <<")">>)
        ELSE Word(name)

\* module_os_names of export_to_excel and import_from_excel
ModuleOsNames(mod_data) ==
    LET named == SelectSeq(Get(mod_data, "os_required", <<>>),
                           LAMBDA e : Truthy(Get(e, "name", None)))
    IN  [i \in 1..Len(named) |-> named[i]["name"]]

\* the cell of a year or semester: mod_data.get('year', '')
NumCell(mod_data, key) ==
    IF Has(mod_data, key) THEN [num |-> mod_data[key]] ELSE [text |-> ""]

InstructorRow(inst_id, inst_data) ==
    LET mods == Get(inst_data, "modules", <<>>)
    IN  <<inst_id, Get(inst_data, "name", ""), Get(inst_data, "email", ""),
          Get(inst_data, "department", ""),
          JoinText([i \in 1..Len(mods) |-> Word(mods[i])]),
          Get(inst_data, "last_review", "")>>

ModuleRow(mod_id, mod_data) ==
    LET entries == Get(mod_data, "os_required", <<>>)
        os_required == SelectSeq([i \in 1..Len(entries) |-> OsText(entries[i])],
                                 LAMBDA o : o # <<>>)
    IN  <<mod_id, Get(mod_data, "code", ""), Get(mod_data, "name", ""),
          Get(mod_data, "description", ""), NumCell(mod_data, "year"),
          NumCell(mod_data, "semester"), JoinText(os_required),
          Get(mod_data, "instructor_id", "")>>

SoftwareRow(mod_id, mod_data, software) ==
    LET own == Get(software, "os_supported", <<>>)
        os_list == IF own = <<>> /\ ModuleOsNames(mod_data) # <<>>
                   THEN ModuleOsNames(mod_data) ELSE own
    IN  <<mod_id, Get(software, "name", ""), Get(software, "version", ""),
          Get(software, "purpose", ""), Get(software, "category", ""),
          IF Get(software, "critical", FALSE) THEN "Yes" ELSE "No",
          JoinText([i \in 1..Len(os_list) |-> Word(os_list[i])]),
          Get(software, "notes", ""), Get(software, "last_verified", ""),
          Get(software, "verified_by", "")>>

RECURSIVE SoftwareRows(_, _)
SoftwareRows(modules, ids) ==
    IF ids = <<>> THEN <<>>
    ELSE LET mod_data == modules[Head(ids)]
             list == Get(mod_data, "software", <<>>)
         IN  [i \in 1..Len(list) |-> SoftwareRow(Head(ids), mod_data, list[i])]
                 \o SoftwareRows(modules, Tail(ids))

\* the OS names a document can hold, in the order sorted() gives them
OsNames == <<"Lin", "Mac", "Win">>

\* os_list of the "Build a mapping of OS to software" loop
OsList(mod_data, software) ==
    LET own == Get(software, "os_supported", <<>>)
    IN  IF own = <<>> /\ ModuleOsNames(mod_data) # <<>>
        THEN ModuleOsNames(mod_data) ELSE own

\* a row of the Software by OS sheet
OsRow(os_name, mod_id, software) ==
    <<os_name, Get(software, "name", ""), Get(software, "version", ""),
      Get(software, "category", ""), mod_id, Get(software, "purpose", ""),
      IF Get(software, "critical", FALSE) THEN "Yes" ELSE "No",
      Get(software, "notes", "")>>

\* os_to_software[os_name]: one entry appended each time os_name comes up
\* in the os_list of a software entry, modules and entries in document order
RECURSIVE OsEntries(_, _, _)
OsEntries(modules, ids, os_name) ==
    IF ids = <<>> THEN <<>>
    ELSE LET mod_data == modules[Head(ids)]
             list == Get(mod_data, "software", <<>>)
             Hits(software) == SelectSeq(OsList(mod_data, software),
                                         LAMBDA o : o = os_name)
         IN  Flatten([i \in 1..Len(list) |->
                         [k \in 1..Len(Hits(list[i])) |->
                             OsRow(os_name, Head(ids), list[i])]])
                 \o OsEntries(modules, Tail(ids), os_name)

\* for os_name in sorted(os_to_software.keys()): the rows of its entries
SoftwareByOsRows(modules, ids) ==
    Flatten([k \in 1..Len(OsNames) |-> OsEntries(modules, ids, OsNames[k])])

\* the ChangeLog rows of one audit entry: a row per change of an update,
\* one row otherwise
ChangeLogEntryRows(entry) ==
    LET head == <<Get(entry, "timestamp", ""), Get(entry, "module_id", ""),
                  Get(entry, "software_name", ""), Get(entry, "action", ""),
                  Get(entry, "actor", "")>>
        changes == Get(entry, "changes", <<>>)
    IN  IF Get(entry, "action", "") = "updated"
        THEN [i \in 1..Len(changes) |->
                 head \o <<Get(changes[i], "field", ""), Get(changes[i], "old", ""),
                           Get(changes[i], "new", "")>>]
        ELSE <<head \o <<"*", "", "">>>>

ChangeLogRows(audit_log) ==
    Flatten([i \in 1..Len(audit_log) |-> ChangeLogEntryRows(audit_log[i])])

\* export_to_excel: the rows of each sheet are deleted and written again
\* from the ConfigLoader snapshot
export_to_excel(config) ==
    LET instructors == get_instructors(config)
        modules == get_modules(config)
        inst_ids == Keys(instructors)
        mod_ids == ModKeys(modules)
    IN  [Instructors |-> [i \in 1..Len(inst_ids) |->
                             InstructorRow(inst_ids[i], instructors[inst_ids[i]])],
         Modules |-> [i \in 1..Len(mod_ids) |->
                         ModuleRow(mod_ids[i], modules[mod_ids[i]])],
         Software |-> SoftwareRows(modules, mod_ids),
         SoftwareByOS |-> SoftwareByOsRows(modules, mod_ids),
         ChangeLog |-> ChangeLogRows(Get(config, "audit_log", <<>>))]

\* import_from_excel, "Import instructors"
RECURSIVE import_instructors(_, _)
import_instructors(rows, instructors) ==
    IF rows = <<>> THEN instructors
    ELSE LET row == Head(rows)
         IN  import_instructors(Tail(rows),
                 IF Truthy(row[1])
                 THEN DictSet(instructors, row[1],
                              [name |-> OrEmpty(row[2]), email |-> OrEmpty(row[3]),
                               department |-> OrEmpty(row[4]),
                               modules |-> SplitList(row[5]),
                               last_review |-> OrEmpty(row[6])])
                 ELSE instructors)

\* "if row[4]" on a year or semester cell
CellTruthy(cell) == IF Has(cell, "num") THEN cell.num # 0 ELSE cell.text # ""

\* the strings int() accepts, among those a cell can hold
Numerals == ("1" :> 1) @@ ("2" :> 2)

\* int(row[4]) if row[4] else 1; ok is FALSE where int() raises ValueError
IntCell(cell) ==
    IF ~CellTruthy(cell) THEN [ok |-> TRUE, v |-> 1]
    ELSE IF Has(cell, "num") THEN [ok |-> TRUE, v |-> cell.num]
    ELSE IF cell.text \in DOMAIN Numerals THEN [ok |-> TRUE, v |-> Numerals[cell.text]]
    ELSE [ok |-> FALSE, v |-> 0]

\* import_from_excel, "Import modules"; ok is FALSE where a row raises
RECURSIVE import_modules(_, _)
import_modules(rows, modules) ==
    IF rows = <<>> THEN [ok |-> TRUE, modules |-> modules]
    ELSE LET row == Head(rows)
             names == SplitList(row[7])
             year == IntCell(row[5])
             semester == IntCell(row[6])
         IN  IF ~Truthy(row[1]) THEN import_modules(Tail(rows), modules)
             ELSE IF ~year.ok \/ ~semester.ok
             THEN [ok |-> FALSE, modules |-> modules]
             ELSE import_modules(Tail(rows),
                      DictSet(modules, row[1],
                              [code |-> OrEmpty(row[2]), name |-> OrEmpty(row[3]),
                               description |-> OrEmpty(row[4]),
                               year |-> year.v, semester |-> semester.v,
                               os_required |-> [i \in 1..Len(names) |->
                                                   [name |-> names[i]]],
                               instructor_id |-> OrEmpty(row[8]),
                               software |-> <<>>]))

\* import_from_excel, "Import software": a row whose module id is not among
\* the imported modules is passed over
RECURSIVE import_software(_, _)
import_software(rows, modules) ==
    IF rows = <<>> THEN modules
    ELSE LET row == Head(rows)
             mod_id == row[1]
         IN  IF Truthy(row[1]) /\ Truthy(row[2]) /\ mod_id \in DOMAIN modules
             THEN LET listed == SplitList(row[7])
                      os_supported == IF listed = <<>>
                                      THEN ModuleOsNames(modules[mod_id])
                                      ELSE listed
                      software == [name |-> row[2], version |-> OrEmpty(row[3]),
                                   purpose |-> OrEmpty(row[4]),
                                   category |-> OrEmpty(row[5]),
                                   critical |-> (row[6] = "Yes"),
                                   os_supported |-> os_supported,
                                   notes |-> OrEmpty(row[8]),
                                   last_verified |-> OrEmpty(row[9]),
                                   verified_by |-> OrEmpty(row[10])]
                  IN  import_software(Tail(rows),
                          DictSet(modules, mod_id,
                                  DictSet(modules[mod_id], "software",
                                          Append(modules[mod_id]["software"],
                                                 software))))
             ELSE import_software(Tail(rows), modules)

\* (import_from_excel as it would be if it rebuilt the audit log from the
\* rows of the ChangeLog sheet)
import_from_excel_reading_log(config, disk, workbook) ==
    LET instructors == import_instructors(workbook.Instructors, EmptyDict)
        m == import_modules(workbook.Modules, EmptyDict)
        log == [i \in 1..Len(workbook.ChangeLog) |->
                   [timestamp |-> workbook.ChangeLog[i][1],
                    module_id |-> workbook.ChangeLog[i][2],
                    software_name |-> workbook.ChangeLog[i][3],
                    action |-> workbook.ChangeLog[i][4],
                    actor |-> workbook.ChangeLog[i][5]]]
    IN  IF ~m.ok
        THEN [ok |-> FALSE, cfg |-> disk, msg |-> [error |-> "ValueError"]]
        ELSE [ok |-> TRUE,
              cfg |-> DictSet(DictSet(DictSet(config, "instructors", instructors),
                                      "modules",
                                      import_software(workbook.Software, m.modules)),
                              "audit_log", log),
              msg |-> [instructors |-> Cardinality(DOMAIN instructors),
                       modules |-> Cardinality(DOMAIN m.modules)]]

\* import_from_excel: [ok, cfg, msg], the boolean returned, the document on
\* disk afterwards and what the message returned is formatted from
import_from_excel(config, disk, workbook) ==
    LET instructors == import_instructors(workbook.Instructors, EmptyDict)
        m == import_modules(workbook.Modules, EmptyDict)
    IN  IF ~m.ok
        THEN [ok |-> FALSE, cfg |-> disk, msg |-> [error |-> "ValueError"]]
        ELSE [ok |-> TRUE,
              cfg |-> DictSet(DictSet(config, "instructors", instructors), "modules",
                              import_software(workbook.Software, m.modules)),
              msg |-> [instructors |-> Cardinality(DOMAIN instructors),
                       modules |-> Cardinality(DOMAIN m.modules)]]

NoPrev == [op |-> None, id |-> None, data |-> EmptyDict, ok |-> FALSE]

\* (the export as it would be if the rows already in the sheets were kept)
ExportToExcel_keeping_rows ==
    /\ book' = [sheet \in DOMAIN book |-> book[sheet] \o export_to_excel(cache)[sheet]]
    /\ last' = [op |-> "export", id |-> None, name |-> None, data |-> EmptyDict,
                ok |-> TRUE, pre |-> doc, writes |-> <<>>,
                prev |-> [op |-> last.op, id |-> last.id, data |-> last.data,
                          ok |-> last.ok]]
    /\ UNCHANGED <<doc, backup, archive, cache, procs>>

\* POST /api/excel/export
ExportToExcel ==
    /\ book' = export_to_excel(cache)
    /\ last' = [op |-> "export", id |-> None, name |-> None, data |-> EmptyDict,
                ok |-> TRUE, pre |-> doc, writes |-> <<>>,
                prev |-> [op |-> last.op, id |-> last.id, data |-> last.data,
                          ok |-> last.ok]]
    /\ UNCHANGED <<doc, backup, archive, cache, procs>>

\* POST /api/excel/import: reload_config() runs after a successful import.
\* last.prev is the operation the workbook was exported after, when the
\* import follows the export directly.
ImportFromExcel ==
    LET r == import_from_excel(cache, doc, book)
    IN  /\ doc' = r.cfg
        /\ cache' = IF r.ok THEN r.cfg ELSE cache
        /\ last' = [op |-> "import", id |-> None, name |-> None, data |-> EmptyDict,
                    ok |-> r.ok, pre |-> doc,
                    writes |-> IF r.ok THEN <<r.cfg>> ELSE <<>>,
                    msg |-> r.msg,
                    prev |-> IF last.op = "export" THEN last.prev ELSE NoPrev]
        /\ UNCHANGED <<book, backup, archive, procs>>

\* the user adds a row to the Software sheet of an exported workbook
EditSoftwareRow(mod_id, name) ==
    /\ last.op = "export"
    /\ book' = [book EXCEPT !.Software =
                    Append(@, <<mod_id, name, "", "p", "", "No", <<>>, "", "", "">>)]
    /\ last' = [op |-> "edit", id |-> mod_id, name |-> name, data |-> EmptyDict,
                ok |-> TRUE, pre |-> doc, writes |-> <<>>]
    /\ UNCHANGED <<doc, backup, archive, cache, procs>>

\* the user types into the year cell of a row of the Modules sheet of an
\* exported workbook
EditYearCell(i, text) ==
    /\ last.op = "export"
    /\ i \in 1..Len(book.Modules)
    /\ book' = [book EXCEPT !.Modules[i][5] = [text |-> text]]
    /\ last' = [op |-> "edit", id |-> book.Modules[i][1], name |-> None,
                data |-> EmptyDict, ok |-> TRUE, pre |-> doc, writes |-> <<>>]
    /\ UNCHANGED <<doc, backup, archive, cache, procs>>

----------------------------------------------------------------------------
(* SpecExcel: export and import through the web routes, from documents     *)
(* with every field of the sheets filled in, with the web update-module    *)
(* and the user's edits of an exported workbook beside them.               *)

ExCode == ("m1" :> "c1") @@ ("m2" :> "c2")

\* the OS lists of a module: none, a name with a note, two names
OsLists == {<<>>, <<[name |-> "Win", note |-> "lab"]>>,
            <<[name |-> "Win"], [name |-> "Mac"]>>}

ExSoftware(os_supported) ==
    [name |-> "A", version |-> "1", purpose |-> "p", category |-> "c",
     critical |-> TRUE, os_supported |-> os_supported, notes |-> "n",
     last_verified |-> Today, verified_by |-> "v"]

\* the software lists of a module: none, or one entry without an OS list
\* of its own
SwLists == {<<>>, <<ExSoftware(<<>>)>>}

ExInstructor(id, modules) ==
    [name |-> "N", email |-> EmailOf(id), department |-> "D", modules |-> modules,
     last_review |-> Today]

ExModule(id, owner, os_required, software) ==
    [code |-> ExCode[id], name |-> "M", description |-> "d", year |-> 2,
     semester |-> 1, os_required |-> os_required, instructor_id |-> owner,
     software |-> software]

\* two instructors and two modules; m1 is owned by i1, m2 by nobody
ExcelDocs ==
    {[instructors |-> [i \in InstrIds |->
                          ExInstructor(i, IF i = "i1" THEN <<"m1">> ELSE <<>>)],
      modules |-> [m \in ModIds |->
                      IF m = "m1" THEN ExModule(m, "i1", os, sw)
                      ELSE ExModule(m, "", <<>>, <<>>)]] :
         os \in OsLists, sw \in SwLists}

InitExcel ==
    /\ doc \in ExcelDocs
    /\ backup = doc
    /\ archive = doc
    /\ cache = doc
    /\ procs = [p \in Callers |-> Idle]
    /\ book = EmptyBook
    /\ last = NoOp

NextExcel ==
    \/ \E i \in InstrIds : WebUpdateModule("m2", [instructor_id |-> i])
    \/ ExportToExcel
    \/ ImportFromExcel
    \/ EditSoftwareRow("m9", "B")
    \/ \E text \in {"x", "1"} : EditYearCell(1, text)

SpecExcel == InitExcel /\ [][NextExcel]_vars

\* a software entry that came back equals the original, except that an
\* entry without an OS list of its own may have the module's OS names
SameSoftware(mod_data, old, new) ==
    \/ new = old
    \/ /\ Get(old, "os_supported", <<>>) = <<>>
       /\ new = DictSet(old, "os_supported", ModuleOsNames(mod_data))

SameModule(old, new) ==
    /\ DictDel(new, "software") = DictDel(old, "software")
    /\ Len(new["software"]) = Len(old["software"])
    /\ \A i \in 1..Len(old["software"]) :
          SameSoftware(old, old["software"][i], new["software"][i])

\* C16: exporting a valid document and importing the result back yields a
\* document whose instructors and modules (with each module's OS entries
\* and their notes, code, year, semester, owner and software list) equal
\* the original, except that a software entry with no OS list of its own
\* may come back with its module's OS names.
C16_RoundTrip ==
    (last.op = "import" /\ book = export_to_excel(last.pre)) =>
        /\ last.ok
        /\ get_instructors(doc) = get_instructors(last.pre)
        /\ DOMAIN get_modules(doc) = DOMAIN get_modules(last.pre)
        /\ \A m \in DOMAIN get_modules(last.pre) :
              SameModule(get_modules(last.pre)[m], get_modules(doc)[m])

\* module M names I as its owner and the module list of I holds M
OwnedBy(config, M, I) ==
    /\ M \in DOMAIN get_modules(config)
    /\ Get(get_modules(config)[M], "instructor_id", None) = I
    /\ I \in DOMAIN get_instructors(config)
    /\ Contains(get_instructor_modules(config, I), M)

\* C17: after an update-module of M with instructor_id = I that made I the
\* owner of M on both sides, followed by an export and then an import, the
\* owner field of M is still I and the module list of I still holds M.
C17_OwnershipSurvives ==
    (/\ last.op = "import"
     /\ last.prev.op = "web_update_module"
     /\ last.prev.ok
     /\ OwnedBy(last.pre, last.prev.id, last.prev.data["instructor_id"])) =>
        /\ last.ok
        /\ OwnedBy(doc, last.prev.id, last.prev.data["instructor_id"])

\* C17 witness: the round trip after an update-module that gave I a second
\* module, and I still owns it.
C17_Witness ==
    /\ last.op = "import"
    /\ last.ok
    /\ last.prev.op = "web_update_module"
    /\ last.prev.ok
    /\ OwnedBy(doc, last.prev.id, last.prev.data["instructor_id"])
    /\ Len(get_instructor_modules(doc, last.prev.data["instructor_id"])) = 2
    /\ get_instructor_modules(doc, last.prev.data["instructor_id"])[2] = last.prev.id

\* the rows of the Software sheet that name a module id the Modules sheet
\* does not have
UnknownModuleRows(workbook) ==
    {i \in 1..Len(workbook.Software) :
        /\ Truthy(workbook.Software[i][1])
        /\ Truthy(workbook.Software[i][2])
        /\ \A j \in 1..Len(workbook.Modules) :
              workbook.Modules[j][1] # workbook.Software[i][1]}

\* the rows of the Modules sheet whose year or semester cell int() refuses
BadNumberRows(workbook) ==
    {i \in 1..Len(workbook.Modules) :
        /\ Truthy(workbook.Modules[i][1])
        /\ ~IntCell(workbook.Modules[i][5]).ok \/ ~IntCell(workbook.Modules[i][6]).ok}

\* the software rows of the sheet that name module m
RowsNaming(workbook, m) ==
    {i \in 1..Len(workbook.Software) :
        workbook.Software[i][1] = m /\ Truthy(workbook.Software[i][2])}

\* C18: an import whose Software sheet has a row naming a module id that is
\* not in the Modules sheet succeeds as a whole, adds that software to no
\* module, and reports that row as skipped in its result.
C18_UnknownModuleRowReported ==
    (last.op = "import" /\ UnknownModuleRows(book) # {}
        /\ BadNumberRows(book) = {}) =>
        /\ last.ok
        /\ \A m \in DOMAIN get_modules(doc) :
              Len(get_modules(doc)[m]["software"])
                  = Cardinality(RowsNaming(book, m))
        /\ Has(last.msg, "skipped")
        /\ UnknownModuleRows(book) \subseteq last.msg["skipped"]

\* C19: a module row whose year or semester cell is not a number does not
\* abort the import: the import returns success, the other module rows are
\* imported, and the bad row is reported as a warning.
C19_BadRowDoesNotAbort ==
    (last.op = "import" /\ BadNumberRows(book) # {}) =>
        /\ last.ok
        /\ \A i \in (1..Len(book.Modules)) \ BadNumberRows(book) :
              Truthy(book.Modules[i][1]) =>
                  book.Modules[i][1] \in DOMAIN get_modules(doc)
        /\ Has(last.msg, "warnings")
        /\ BadNumberRows(book) \subseteq last.msg["warnings"]

----------------------------------------------------------------------------
(* ConfigLoader.validate_config (src/src/config_loader.py), and            *)
(* SpecValidate: validate_config run on documents with any of the defects  *)
(* it looks for.  The messages are the strings the code formats.           *)

\* "Check required top-level keys"
KeyErrors(config) ==
    LET missing == SelectSeq(<<"instructors", "modules">>, LAMBDA k : ~Has(config, k))
    IN  [i \in 1..Len(missing) |-> "Missing required key: " \o missing[i]]

\* "Validate instructors": the body of the loop for one instructor
InstructorErrors(config, inst_id) ==
    LET inst_data == get_instructors(config)[inst_id]
        modules == get_modules(config)
    IN  (IF ~Has(inst_data, "email")
         THEN <<"Instructor " \o inst_id \o " missing email">> ELSE <<>>)
        \o
        (IF ~Has(inst_data, "modules")
         THEN <<"Instructor " \o inst_id \o " missing modules list">>
         ELSE LET absent == SelectSeq(inst_data["modules"],
                                      LAMBDA m : m \notin DOMAIN modules)
              IN  [i \in 1..Len(absent) |->
                      "Instructor " \o inst_id
                          \o " references non-existent module: " \o absent[i]])

\* the body of the loop over enumerate(mod_data['software']); idx counts
\* from 0
SoftwareErrors(mod_id, idx, soft) ==
    (IF ~Has(soft, "name")
     THEN <<"Module " \o mod_id \o " software #" \o ToString(idx) \o " missing name">>
     ELSE <<>>)
    \o
    (IF ~Has(soft, "purpose")
     THEN <<"Module " \o mod_id \o " software " \o Get(soft, "name", "?")
                \o " missing purpose">>
     ELSE <<>>)

\* "Validate modules": the body of the loop for one module
ModuleErrors(config, mod_id) ==
    LET mod_data == get_modules(config)[mod_id]
    IN  (IF ~Has(mod_data, "name")
         THEN <<"Module " \o mod_id \o " missing name">> ELSE <<>>)
        \o
        (IF ~Has(mod_data, "software")
         THEN <<"Module " \o mod_id \o " missing software list">>
         ELSE Flatten([i \in 1..Len(mod_data["software"]) |->
                          SoftwareErrors(mod_id, i - 1, mod_data["software"][i])]))

\* errors, as validate_config has built it when it returns
ValidationErrors(config) ==
    LET inst_ids == Keys(get_instructors(config))
        mod_ids == ModKeys(get_modules(config))
    IN  KeyErrors(config)
        \o Flatten([i \in 1..Len(inst_ids) |-> InstructorErrors(config, inst_ids[i])])
        \o Flatten([i \in 1..Len(mod_ids) |-> ModuleErrors(config, mod_ids[i])])

\* (validate_config as it would be if it stopped at the first error)
validate_config_first_only(config) ==
    LET errors == ValidationErrors(config)
    IN  [ok |-> Len(errors) = 0,
         errors |-> IF errors = <<>> THEN <<>> ELSE <<Head(errors)>>]

\* return len(errors) == 0, errors
validate_config(config) ==
    LET errors == ValidationErrors(config)
    IN  [ok |-> Len(errors) = 0, errors |-> errors]

\* config_loader.validate_config(), on the snapshot the loader holds
Validate ==
    LET r == validate_config(cache)
    IN  /\ last' = [op |-> "validate", id |-> None, name |-> None, data |-> EmptyDict,
                    ok |-> r.ok, pre |-> doc, writes |-> <<>>, msg |-> r.errors]
        /\ UNCHANGED <<doc, backup, archive, cache, procs, book>>

\* a dict with any of the keys of d left out
Partial(d) == {[k \in K |-> d[k]] : K \in SUBSET DOMAIN d}

\* instructor i1, with or without an email and a module list; the lists
\* name m1 and a module m2 that no document has
DefectInstructors ==
    {EmptyDict} \cup
    {[i \in {"i1"} |-> d] :
        d \in UNION {Partial([email |-> "e1", modules |-> l]) :
                        l \in SeqsUpTo({"m1", "m2"}, MaxList)}}

\* software entries with or without a name and a purpose
DefectSoftware == Partial([name |-> "A", purpose |-> "p"])

\* module m1, with or without a name and a software list
DefectModules ==
    {EmptyDict} \cup
    {[m \in {"m1"} |-> d] :
        d \in UNION {Partial([name |-> "M", software |-> l]) :
                        l \in SeqsUpTo(DefectSoftware, MaxSoftware)}}

\* the documents: with or without each top-level key
DefectDocs ==
    UNION {Partial([instructors |-> i, modules |-> m]) :
               i \in DefectInstructors, m \in DefectModules}

InitValidate ==
    /\ doc \in DefectDocs
    /\ backup = doc
    /\ archive = doc
    /\ cache = doc
    /\ procs = [p \in Callers |-> Idle]
    /\ book = EmptyBook
    /\ last = NoOp

NextValidate == Validate

SpecValidate == InitValidate /\ [][NextValidate]_vars

\* C20: validate returns ok = true exactly when the violation list is
\* empty, and the list holds a violation for every defect present, without
\* stopping at the first: each missing top-level key named by its key, each
\* instructor missing an email or a module list, each reference of an
\* instructor to a module that does not exist, each module missing a name
\* or a software list, and each software entry missing a name (named by
\* module id and index) or a purpose.
C20_ValidateReportsEveryDefect ==
    last.op = "validate" =>
        LET errors == Range(last.msg)
            instructors == get_instructors(doc)
            modules == get_modules(doc)
        IN  /\ last.ok <=> (last.msg = <<>>)
            /\ \A k \in {"instructors", "modules"} :
                  ~Has(doc, k) => ("Missing required key: " \o k) \in errors
            /\ \A i \in DOMAIN instructors :
                  /\ ~Has(instructors[i], "email") =>
                         ("Instructor " \o i \o " missing email") \in errors
                  /\ ~Has(instructors[i], "modules") =>
                         ("Instructor " \o i \o " missing modules list") \in errors
                  /\ Has(instructors[i], "modules") =>
                         \A m \in Range(instructors[i]["modules"]) \ DOMAIN modules :
                             ("Instructor " \o i
                                  \o " references non-existent module: " \o m)
                                 \in errors
            /\ \A m \in DOMAIN modules :
                  /\ ~Has(modules[m], "name") =>
                         ("Module " \o m \o " missing name") \in errors
                  /\ ~Has(modules[m], "software") =>
                         ("Module " \o m \o " missing software list") \in errors
                  /\ Has(modules[m], "software") =>
                         \A n \in 1..Len(modules[m]["software"]) :
                             LET soft == modules[m]["software"][n]
                             IN  /\ ~Has(soft, "name") =>
                                        ("Module " \o m \o " software #"
                                             \o ToString(n - 1) \o " missing name")
                                            \in errors
                                 /\ ~Has(soft, "purpose") =>
                                        \E e \in errors :
                                            e = "Module " \o m \o " software "
                                                    \o Get(soft, "name", "?")
                                                    \o " missing purpose"

\* C20 witness: validate returned ok = false with three violations or more,
\* among them one for a missing top-level key and one for the second
\* software entry of a module.
C20_Witness ==
    /\ last.op = "validate"
    /\ ~last.ok
    /\ "Missing required key: instructors" \in Range(last.msg)
    /\ "Module m1 software #1 missing name" \in Range(last.msg)
    /\ Len(last.msg) >= 3

----------------------------------------------------------------------------
(* SpecFaults: the nine ConfigWriter operations with the try / except of   *)
(* each made explicit, on a primary document that can be missing, empty,   *)
(* without one of its sections, or unwritable at the moment of the save.   *)
(* Every operation has the shape                                           *)
(*   try: _backup_config(); config = _load_config(); ...; _save_config()   *)
(*   except Exception as e: print(...); return False                       *)
(* so what the caller sees is [ok, raised]: the boolean returned, and      *)
(* whether an exception left the operation.                                *)

\* no file at config_path
MissingFile == [missing |-> TRUE]

\* (the handler as it would be if it re-raised)
Caught_reraised(disk, exception) ==
    [ok |-> FALSE, cfg |-> disk, raised |-> TRUE, error |-> exception]

\* except Exception as e: print(...); return False
Caught(disk, exception) ==
    [ok |-> FALSE, cfg |-> disk, raised |-> FALSE, error |-> exception]

\* the body of the try, r being what the checks and the write give on a
\* document that loads: shutil.copy2 raises on a missing file, the first
\* "in config" test raises on the None an empty file loads as, and
\* open(config_path, 'w') raises on a file that cannot be written
Guarded(disk, r, writable) ==
    IF disk = MissingFile THEN Caught(disk, "FileNotFoundError")
    ELSE IF disk = EmptyFile THEN Caught(disk, "TypeError")
    ELSE IF r.ok /\ ~writable THEN Caught(disk, "PermissionError")
    ELSE [ok |-> r.ok, cfg |-> r.cfg, raised |-> FALSE, error |-> None]

FaultyCall(op, id, name, data, r, writable) ==
    LET g == Guarded(doc, r, writable)
    IN  /\ doc' = g.cfg
        /\ backup' = IF doc = MissingFile THEN backup ELSE doc
        /\ archive' = IF doc = MissingFile THEN archive ELSE doc
        /\ last' = [op |-> op, id |-> id, name |-> name, data |-> data, ok |-> g.ok,
                    pre |-> doc, writes |-> IF g.ok THEN <<g.cfg>> ELSE <<>>,
                    raised |-> g.raised, error |-> g.error]
        /\ UNCHANGED <<cache, procs, book>>

\* what happens to the file outside the program
FileRemoved ==
    /\ doc # MissingFile
    /\ doc' = MissingFile
    /\ last' = [NoOp EXCEPT !.op = "fault", !.pre = doc]
    /\ UNCHANGED <<backup, archive, cache, procs, book>>

FileEmptied ==
    /\ doc \notin {MissingFile, EmptyFile}
    /\ doc' = EmptyFile
    /\ last' = [NoOp EXCEPT !.op = "fault", !.pre = doc]
    /\ UNCHANGED <<backup, archive, cache, procs, book>>

SectionRemoved(key) ==
    /\ doc # MissingFile
    /\ Has(doc, key)
    /\ DictDel(doc, key) # EmptyFile
    /\ doc' = DictDel(doc, key)
    /\ last' = [NoOp EXCEPT !.op = "fault", !.pre = doc]
    /\ UNCHANGED <<backup, archive, cache, procs, book>>

FaultIds == {"i1"}

FaultMods == {"m1"}

FaultNames == {"A"}

NextFaults ==
    \/ \E id \in FaultIds, data \in OptEmail, w \in BOOLEAN :
           FaultyCall("add_instructor", id, None, data,
                      add_instructor(doc, id, data), w)
    \/ \E id \in FaultIds, data \in OptEmail, w \in BOOLEAN :
           FaultyCall("update_instructor", id, None, data,
                      update_instructor(doc, id, data), w)
    \/ \E id \in FaultIds, w \in BOOLEAN :
           FaultyCall("delete_instructor", id, None, EmptyDict,
                      delete_instructor(doc, id), w)
    \/ \E id \in FaultMods, w \in BOOLEAN :
           FaultyCall("add_module", id, None, PlainModule,
                      add_module(doc, id, PlainModule), w)
    \/ \E id \in FaultMods, data \in CodeUpdate, w \in BOOLEAN :
           FaultyCall("update_module", id, None, data,
                      update_module(doc, id, data), w)
    \/ \E id \in FaultMods, w \in BOOLEAN :
           FaultyCall("delete_module", id, None, EmptyDict,
                      delete_module(doc, id), w)
    \/ \E id \in FaultMods, data \in NamedSoftware, w \in BOOLEAN :
           /\ Cardinality(SoftwareEntries(doc)) < MaxSoftware
           /\ FaultyCall("add_software", id, data["name"], data,
                         add_software_to_module(doc, id, data), w)
    \/ \E id \in FaultMods, name \in FaultNames, data \in Repurpose, w \in BOOLEAN :
           FaultyCall("update_software", id, name, data,
                      update_software_in_module(doc, id, name, data), w)
    \/ \E id \in FaultMods, name \in FaultNames, w \in BOOLEAN :
           FaultyCall("delete_software", id, name, EmptyDict,
                      delete_software_from_module(doc, id, name), w)
    \/ FileRemoved
    \/ FileEmptied
    \/ \E key \in {"instructors", "modules"} : SectionRemoved(key)

SpecFaults == Init /\ [][NextFaults]_vars

\* C21: delete-instructor or delete-module on an id that is not in the
\* document returns failure, raises no exception to the caller, and leaves
\* the persisted document unchanged.
C21_DeleteOfAbsentId ==
    (\/ last.op = "delete_instructor" /\ last.id \notin DOMAIN get_instructors(last.pre)
     \/ last.op = "delete_module" /\ last.id \notin DOMAIN get_modules(last.pre)) =>
        /\ ~last.ok
        /\ ~last.raised
        /\ doc = last.pre

\* C21 witness: a delete-module of an id the document does not have, on a
\* document that loads and has an instructor, was refused.
C21_Witness ==
    /\ last.op = "delete_module"
    /\ last.pre \notin {MissingFile, EmptyFile}
    /\ last.id \notin DOMAIN get_modules(last.pre)
    /\ DOMAIN get_instructors(last.pre) # {}
    /\ ~last.ok
    /\ last.error = None
    /\ doc = last.pre

\* C22: every Writer operation, called with the primary document missing,
\* empty, lacking the instructors or modules section, or unwritable,
\* returns a success / failure result; no exception escapes it.
C22_NoExceptionEscapes ==
    last.op \in WriterOps => (last.ok \in BOOLEAN /\ ~last.raised)

\* C22 witness: an operation called on a missing file caught the exception
\* and returned failure.
C22_Witness ==
    /\ last.op \in WriterOps
    /\ last.pre = MissingFile
    /\ last.error = "FileNotFoundError"
    /\ ~last.ok
    /\ ~last.raised

----------------------------------------------------------------------------
(* SpecLoad: ConfigLoader() on a file that is missing, empty, or holds a   *)
(* document.  __init__ assigns self.config from _load_config, so when      *)
(* _load_config raises, the constructor raises and no loader exists; what  *)
(* a construction gives is [ok, error, loader], loader being the sequence  *)
(* of the configs of the loaders produced (none or one).                   *)

\* (the constructor as it would be if an empty file loaded as an empty dict)
ConfigLoader_lenient(disk) ==
    IF disk = MissingFile
    THEN [ok |-> FALSE, error |-> "FileNotFoundError", loader |-> <<>>]
    ELSE [ok |-> TRUE, error |-> None, loader |-> <<disk>>]

ConfigLoader(disk) ==
    IF disk = MissingFile
    THEN [ok |-> FALSE, error |-> "FileNotFoundError", loader |-> <<>>]
    ELSE IF disk = EmptyFile
    THEN [ok |-> FALSE, error |-> "ValueError", loader |-> <<>>]
    ELSE [ok |-> TRUE, error |-> None, loader |-> <<disk>>]

\* web/app.py reload_config: config_loader = ConfigLoader(); the global
\* keeps the loader it had when the constructor raises
Reload ==
    LET r == ConfigLoader(doc)
    IN  /\ cache' = IF r.ok THEN r.loader[1] ELSE cache
        /\ last' = [op |-> "load", id |-> None, name |-> None, data |-> EmptyDict,
                    ok |-> r.ok, pre |-> doc, writes |-> <<>>,
                    error |-> r.error, loader |-> r.loader]
        /\ UNCHANGED <<doc, backup, archive, procs, book>>

\* the files: missing, empty, or a document with or without its sections
\* and keys (the empty dict stands for the empty file, so the document {}
\* is not among them)
LoadFiles == {MissingFile, EmptyFile} \cup (DefectDocs \ {EmptyDict})

InitLoad ==
    /\ doc \in LoadFiles
    /\ backup = EmptyDoc
    /\ archive = EmptyDoc
    /\ cache = EmptyDoc
    /\ procs = [p \in Callers |-> Idle]
    /\ book = EmptyBook
    /\ last = NoOp

NextLoad == Reload

SpecLoad == InitLoad /\ [][NextLoad]_vars

\* C23: loading fails with an error when the source is missing and when it
\* is present but empty; on either failure no loader is produced, and the
\* loader held before is as it was.
C23_LoadFailsOnMissingOrEmpty ==
    (last.op = "load" /\ last.pre \in {MissingFile, EmptyFile}) =>
        /\ ~last.ok
        /\ last.error # None
        /\ last.loader = <<>>
        /\ cache = EmptyDoc

\* C23 witness: the constructor raised ValueError on an empty file.
C23_Witness ==
    /\ last.op = "load"
    /\ last.pre = EmptyFile
    /\ last.error = "ValueError"
    /\ last.loader = <<>>

----------------------------------------------------------------------------
(* SpecSheets: the five sheets of the workbook.  Documents with software   *)
(* on several OS names and an audit log are exported and imported through  *)
(* the web routes; between an export and an import the user may change the *)
(* ChangeLog and Software by OS sheets or delete a Modules row, and a      *)
(* module may be deleted between two exports.                              *)

SheetSoftware(name, os_supported) == [ExSoftware(os_supported) EXCEPT !.name = name]

\* the OS-supported lists of a software entry: none, one name, two names
\* out of order, one name twice
SheetOsSupported == {<<>>, <<"Win">>, <<"Win", "Mac">>, <<"Win", "Win">>}

AddedEntry ==
    [timestamp |-> Today, module_id |-> "m1", software_name |-> "A",
     action |-> "added", actor |-> "web"]

UpdatedEntry ==
    [timestamp |-> Today, module_id |-> "m1", software_name |-> "A",
     action |-> "updated", actor |-> "web",
     changes |-> <<[field |-> "version", old |-> "0", new |-> "1"],
                   [field |-> "notes", old |-> "", new |-> "n"]>>]

\* the audit logs of a document: no key, one entry, an update of two fields
SheetAuditLogs == {EmptyDict, [audit_log |-> <<AddedEntry>>],
                   [audit_log |-> <<UpdatedEntry>>]}

\* i1 owns m1; m1 has no software or entry A, m2 no software or entry B
SheetDocs ==
    {DictUpdate([instructors |-> [i \in InstrIds |->
                     ExInstructor(i, IF i = "i1" THEN <<"m1">> ELSE <<>>)],
                 modules |-> [m \in ModIds |->
                     IF m = "m1" THEN ExModule(m, "i1", os, sw1)
                     ELSE ExModule(m, "", <<>>, sw2)]], log) :
         os \in {<<>>, <<[name |-> "Lin"]>>},
         sw1 \in {<<>>} \cup {<<SheetSoftware("A", l)>> : l \in SheetOsSupported},
         sw2 \in {<<>>, <<SheetSoftware("B", <<"Mac">>)>>,
                  <<SheetSoftware("B", <<"Win">>)>>},
         log \in SheetAuditLogs}

\* a row the user types into the ChangeLog sheet
TypedLogRow == <<Today, "m2", "Z", "deleted", "user", "*", "", "">>

\* the user replaces the data rows of the ChangeLog sheet
EditChangeLog ==
    /\ last.op \in {"export", "edit"}
    /\ book.ChangeLog # <<TypedLogRow>>
    /\ book' = [book EXCEPT !.ChangeLog = <<TypedLogRow>>]
    /\ last' = [op |-> "edit", id |-> "ChangeLog", name |-> None, data |-> EmptyDict,
                ok |-> TRUE, pre |-> doc, writes |-> <<>>]
    /\ UNCHANGED <<doc, backup, archive, cache, procs>>

\* the user replaces the data rows of the Software by OS sheet
EditSoftwareByOS ==
    /\ last.op \in {"export", "edit"}
    /\ book.SoftwareByOS # <<OsRow("Win", "m2", SheetSoftware("Z", <<>>))>>
    /\ book' = [book EXCEPT !.SoftwareByOS =
                    <<OsRow("Win", "m2", SheetSoftware("Z", <<>>))>>]
    /\ last' = [op |-> "edit", id |-> "Software by OS", name |-> None,
                data |-> EmptyDict, ok |-> TRUE, pre |-> doc, writes |-> <<>>]
    /\ UNCHANGED <<doc, backup, archive, cache, procs>>

\* the user deletes a row of the Modules sheet of an exported workbook
DeleteModulesRow(i) ==
    /\ last.op = "export"
    /\ i \in 1..Len(book.Modules)
    /\ book' = [book EXCEPT !.Modules =
                    SubSeq(@, 1, i - 1) \o SubSeq(@, i + 1, Len(@))]
    /\ last' = [op |-> "edit", id |-> book.Modules[i][1], name |-> None,
                data |-> EmptyDict, ok |-> TRUE, pre |-> doc, writes |-> <<>>]
    /\ UNCHANGED <<doc, backup, archive, cache, procs>>

InitSheets ==
    /\ doc \in SheetDocs
    /\ backup = doc
    /\ archive = doc
    /\ cache = doc
    /\ procs = [p \in Callers |-> Idle]
    /\ book = EmptyBook
    /\ last = NoOp

NextSheets ==
    \/ ExportToExcel
    \/ ImportFromExcel
    \/ EditChangeLog
    \/ EditSoftwareByOS
    \/ DeleteModulesRow(1)
    \/ WebDeleteModule("m2")

SpecSheets == InitSheets /\ [][NextSheets]_vars

\* the workbook with its ChangeLog and Software by OS sheets emptied
WithoutDerived(workbook) ==
    [workbook EXCEPT !.ChangeLog = <<>>, !.SoftwareByOS = <<>>]

\* C24: import never uses the ChangeLog sheet or the Software by OS sheet:
\* after a successful import the audit log of the document is the audit log
\* from before the import, and the document is the one the import of the
\* same workbook with those two sheets emptied gives.
C24_ImportIgnoresDerivedSheets ==
    (last.op = "import" /\ last.ok) =>
        /\ Has(doc, "audit_log") = Has(last.pre, "audit_log")
        /\ AuditLog(doc) = AuditLog(last.pre)
        /\ doc = import_from_excel(last.pre, last.pre, WithoutDerived(book)).cfg

\* C24 witness: a successful import of a workbook whose ChangeLog and
\* Software by OS sheets were both changed by the user, into a document
\* that has an audit log.
C24_Witness ==
    /\ last.op = "import"
    /\ last.ok
    /\ AuditLog(doc) # <<>>
    /\ book.ChangeLog = <<TypedLogRow>>
    /\ book.SoftwareByOS = <<OsRow("Win", "m2", SheetSoftware("Z", <<>>))>>

\* the first cells of the rows of a sheet
FirstCells(sheet) == [i \in 1..Len(sheet) |-> sheet[i][1]]

\* the (module id, software name) pairs of a document, in document order
RECURSIVE SoftwarePairs(_, _)
SoftwarePairs(modules, ids) ==
    IF ids = <<>> THEN <<>>
    ELSE LET list == Get(modules[Head(ids)], "software", <<>>)
         IN  [i \in 1..Len(list) |-> <<Head(ids), Get(list[i], "name", "")>>]
                 \o SoftwarePairs(modules, Tail(ids))

OsSet(mod_data, software) == Range(OsList(mod_data, software))

\* one row per (OS name, module, software) triple, OS names in sorted
\* order, modules and entries in document order
RECURSIVE TripleRows(_, _, _)
TripleRows(modules, ids, os_name) ==
    IF ids = <<>> THEN <<>>
    ELSE LET mod_data == modules[Head(ids)]
             list == Get(mod_data, "software", <<>>)
             listed == SelectSeq(list, LAMBDA s : os_name \in OsSet(mod_data, s))
         IN  [i \in 1..Len(listed) |-> OsRow(os_name, Head(ids), listed[i])]
                 \o TripleRows(modules, Tail(ids), os_name)

\* C26: the exported Software by OS sheet has exactly one row for each
\* (OS name, module, software) triple where the OS name is in the
\* OS-supported list of the software, or among the required-OS names of
\* the module when the software declares none; OS names in sorted order,
\* within one OS name in document order.
C26_OneRowPerTriple ==
    (last.op = "export") =>
        book.SoftwareByOS =
            Flatten([k \in 1..Len(OsNames) |->
                        TripleRows(get_modules(doc), ModKeys(get_modules(doc)),
                                   OsNames[k])])

\* C30: after a successful import, every module id in the module list of
\* an imported instructor is an id of an imported module.
C30_ImportHasNoDanglingReference ==
    (last.op = "import" /\ last.ok) => NoDangling(doc)

====
